---- MODULE Spec2Model ----
(***************************************************************************)
(* The function registry of the FaaS control plane                         *)
(* (src/internal/registry/registry.go) and the Host resolver of its proxy  *)
(* (src/internal/api/handler.go).                                          *)
(*                                                                         *)
(* Every lifecycle method takes the registry's write lock for its whole    *)
(* body (r.mu.Lock(); defer r.mu.Unlock()), so each one is a single atomic *)
(* action.  What the operating system and the database answer (which port  *)
(* is free, whether a file can be written, whether the child can be        *)
(* spawned, which ports accept a connection, whether a statement fails) is *)
(* the environment's choice and is drawn with \E in the actions.           *)
(*                                                                         *)
(* Strings built with fmt.Sprintf("%s:%s", a, b) are modelled as the pair  *)
(* <<a, b>>, and a host name "x.y.func.local" as the sequence of its       *)
(* dot-separated labels <<x, y, "func", "local">>; names, versions and     *)
(* aliases of the model hold neither ':' nor '.'.                          *)
(***************************************************************************)
EXTENDS Integers, Sequences, FiniteSets, TLC

\* ------------------------------------------------------------------ bounds

\* The number of API calls a behaviour makes.
MaxOps == 4

\* Function names, versions and aliases the API is called with.
Names == {"hello"}
Versions == {"v1", "v2"}
Aliases == {"", "test", "latest"}

\* The env_vars a deploy request carries.
EnvMaps == {[APP_ENV |-> "production"]}

\* Loopback ports the kernel may hand out for 127.0.0.1:0.  49 and 50 are
\* the code points of the characters '1' and '2'.
Ports == {49, 50}

\* Ports on which a listener that is no child of the registry may accept.
ForeignPorts == {1, 2}

\* The sets of ports that accept a connection while a probe runs: none, or
\* the foreign ones.
Accepting == {{}, ForeignPorts}

\* ----------------------------------------------------------------- helpers

Put(f, k, v) == [x \in DOMAIN f \cup {k} |-> IF x = k THEN v ELSE f[x]]

Del(f, k) == [x \in DOMAIN f \ {k} |-> f[x]]

Empty == [x \in {} |-> 0]

Keys == Names \X Versions

\* The addresses of the records on the heap: one for every key, one more for
\* the record funcs holds of every function, two for the records the
\* requests in progress point to, and one for the record a call builds.
MetaIds == 1..(Cardinality(Keys) + Cardinality(Names) + 3)

\* ------------------------------------------------------------------- state

VARIABLES
    metas,         \* the heap of *FunctionMetadata objects: id -> record
    versionMap,    \* Registry.versionMap: <<name, version>> -> meta id
    funcs,         \* Registry.funcs: name -> meta id
    aliasMap,      \* Registry.aliasMap: <<name, alias>> -> version
    subdomainMap,  \* Registry.subdomainMap: host -> <<name, version>>
    db,            \* table function_metadata: <<name, version>> -> row
    procs,         \* live workerd children: pid -> port of their config
    last,          \* the call that completed last, and what it returned
    ops,           \* the number of calls completed
    mu,            \* Registry.mu: the read locks held, and a writer in Lock()
    reqs           \* the proxy requests in their lookup: request -> position

vars == <<metas, versionMap, funcs, aliasMap, subdomainMap, db, procs, last, ops, mu, reqs>>

\* The registry as one value, for the operators that model its methods.
Cur ==
    [metas |-> metas, versionMap |-> versionMap, funcs |-> funcs,
     aliasMap |-> aliasMap, subdomainMap |-> subdomainMap, db |-> db,
     procs |-> procs]

\* ------------------------------------------------------- names and lookups

versionKey(name, version) == <<name, version>>

generateVersionSubdomain(funcName, version) == <<version, funcName, "func", "local">>

generateAliasSubdomain(funcName, alias) == <<alias, funcName, "func", "local">>

\* The bare host "{name}.func.local".
FunctionHost(funcName) == <<funcName, "func", "local">>

NotFound == 0

\* A function name no Deploy of the model is made for.
OtherNames == {"other"}

\* The version-, alias- and function-scoped hosts of the model, and the
\* hosts with the name of one function as the label before another's.
Hosts ==
    {generateVersionSubdomain(n, v) : n \in Names, v \in Versions}
        \cup {generateAliasSubdomain(n, a) : n \in Names, a \in Aliases \ {""}}
        \cup {FunctionHost(n) : n \in Names}
        \cup {<<l, n, "func", "local">> : l \in Names, n \in OtherNames}

GetBySubdomain(r, subdomain) ==
    IF subdomain \notin DOMAIN r.subdomainMap THEN NotFound
    ELSE IF r.subdomainMap[subdomain] \notin DOMAIN r.versionMap THEN NotFound
    ELSE r.versionMap[r.subdomainMap[subdomain]]

GetByName(r, funcName) ==
    IF funcName \in DOMAIN r.funcs THEN r.funcs[funcName] ELSE NotFound

GetByVersion(r, funcName, version) ==
    IF versionKey(funcName, version) \in DOMAIN r.versionMap
    THEN r.versionMap[versionKey(funcName, version)]
    ELSE NotFound

\* parts := strings.Split(subdomain, "."): the host is its labels already.
GetByAlias(r, subdomain) ==
    IF Len(subdomain) < 2 THEN NotFound
    ELSE LET alias == subdomain[1]
             funcName == subdomain[2]
         IN IF <<funcName, alias>> \notin DOMAIN r.aliasMap THEN NotFound
            ELSE GetByVersion(r, funcName, r.aliasMap[<<funcName, alias>>])

\* The lookup of ProxyHandler: the id of the record the request goes to.
Resolve(r, host) ==
    IF GetBySubdomain(r, host) # NotFound THEN GetBySubdomain(r, host)
    ELSE IF GetByAlias(r, host) # NotFound THEN GetByAlias(r, host)
    ELSE GetByName(r, host[1])

\* The (name, version) a host resolves to, <<>> for a host that is not found.
ResolvedKey(r, host) ==
    IF Resolve(r, host) = NotFound THEN <<>>
    ELSE versionKey(r.metas[Resolve(r, host)].name, r.metas[Resolve(r, host)].version)

\* ------------------------------------------------------ ports and children

\* getFreePort: the kernel binds 127.0.0.1:0 to a port no listener holds.
FreePorts(r) == Ports \ {r.procs[p] : p \in DOMAIN r.procs}

\* string(rune(port)) is the one-character string whose code point is port,
\* and net.Dial reads a port string as a decimal number: only the code
\* points of '0'..'9' (48..57) name a port, the digit itself; every other
\* string is an unknown service and the dial fails.
DialedPorts(port) == IF port \in 48..57 THEN {port - 48} ELSE {}

\* waitPortListening(host, port) returns nil iff one dial within the 5 s is
\* accepted; accepting is the set of ports that accept a connection then.
waitPortListening(port, accepting) == DialedPorts(port) \cap accepting # {}

\* What the environment answers during one call: the fault it injects (or
\* none), the port the kernel hands out, the pid it gives the next child,
\* and the ports that accept a connection while the probe runs.
NoFault == "none"

Env(fault, port, pid, accepting) ==
    [fault |-> fault, port |-> port, pid |-> pid, accepting |-> accepting]

\* time.Now() during the call in progress: calls are numbered from 1.
Now == ops + 1

\* The pid of the next child: the kernel gives one that no live process has;
\* it is taken above every pid a record still holds as well.
PidAfter(r) ==
    LET held == DOMAIN r.procs \cup {r.metas[i].pid : i \in DOMAIN r.metas}
    IN 1 + (CHOOSE p \in held \cup {0} : \A q \in held : q <= p)

\* A path of the storage directory, filepath.Join(r.StorageDir, base + ext),
\* as the pair of the base name and the extension.
codeFile(m) == <<m.name, "js">>

confFile(m) == <<m.name, "capnp">>

logFile(m) == <<m.name, "log">>

\* genWorkerdEnv(env): one binding (name, value) for every entry of the map.
genWorkerdEnv(envVars) == {<<k, envVars[k]>> : k \in DOMAIN envVars}

\* The configuration generateWorkerdFiles renders: one service named after
\* the function with the code file embedded, one http socket on the port of
\* the record, and the bindings the format string holds: none.
confContent(m) ==
    [service |-> m.name, script |-> codeFile(m), address |-> m.port, bindings |-> {}]

\* generateWorkerdFiles(meta): [err, r].  The code is written and its path
\* recorded, the configuration is written and its path recorded, the path of
\* the log is recorded.  The content of the storage directory is not kept:
\* what is written to a path is a function of the record that is started.
generateWorkerdFiles(r, id, env) ==
    IF env.fault = "code" THEN [err |-> "write code", r |-> r]
    ELSE IF env.fault = "conf"
    THEN [err |-> "write conf",
          r |-> [r EXCEPT !.metas[id].codePath = codeFile(r.metas[id])]]
    ELSE [err |-> "",
          r |-> [r EXCEPT !.metas[id].codePath = codeFile(r.metas[id]),
                          !.metas[id].confPath = confFile(r.metas[id]),
                          !.metas[id].logPath = logFile(r.metas[id])]]

\* startWorkerd past the files: the log is opened, the child is started and
\* its pid recorded in the record, then the port is probed; a failed probe
\* kills the child and leaves the record as it is.  A child whose port
\* another child listens on cannot bind it and exits.
spawnWorkerd(r, id, env) ==
    IF env.fault = "log" THEN [err |-> "open log", r |-> r]
    ELSE IF env.fault = "spawn" THEN [err |-> "start workerd", r |-> r]
    ELSE IF ~waitPortListening(r.metas[id].port, env.accepting)
    THEN [err |-> "wait port", r |-> [r EXCEPT !.metas[id].pid = env.pid]]
    ELSE IF r.metas[id].port \in {r.procs[p] : p \in DOMAIN r.procs}
    THEN [err |-> "", r |-> [r EXCEPT !.metas[id].pid = env.pid]]
    ELSE [err |-> "",
          r |-> [r EXCEPT !.metas[id].pid = env.pid,
                          !.procs = Put(@, env.pid, r.metas[id].port)]]

\* startWorkerd(meta): [err, r].
startWorkerd(r, id, env) ==
    IF generateWorkerdFiles(r, id, env).err # ""
    THEN generateWorkerdFiles(r, id, env)
    ELSE spawnWorkerd(generateWorkerdFiles(r, id, env).r, id, env)

\* stopWorkerd(meta): [err, r].  Nothing to do for pid 0; else the process
\* is signalled and waited for and the pid cleared; a failing signal or wait
\* returns the error and clears nothing.
stopWorkerd(r, id, env) ==
    IF r.metas[id].pid = 0 THEN [err |-> "", r |-> r]
    ELSE IF env.fault = "stop" THEN [err |-> "signal", r |-> r]
    ELSE [err |-> "",
          r |-> [r EXCEPT !.metas[id].pid = 0,
                          !.procs = Del(@, r.metas[id].pid)]]

\* ------------------------------------------------------------------- store

\* The handler builds every record with ID 0, so db.Save(meta) is an INSERT;
\* Subdomain carries a unique index, and a soft-deleted row still holds its
\* subdomain.  A row is [alias, deleted, seq, code, envVars, updatedAt]: seq
\* is its primary key, given in the order of insertion.
dbSave(r, id, env) ==
    LET m == r.metas[id]
        key == versionKey(m.name, m.version)
    IN IF env.fault = "db" \/ key \in DOMAIN r.db
       THEN [err |-> "save", r |-> r]
       ELSE [err |-> "",
             r |-> [r EXCEPT !.db = Put(@, key, [alias |-> m.alias, deleted |-> FALSE,
                                                 seq |-> Cardinality(DOMAIN r.db) + 1,
                                                 code |-> m.code, envVars |-> m.envVars,
                                                 updatedAt |-> m.updatedAt])]]

\* db.Save(meta) of a record read from the table (ID set) is an UPDATE of its
\* row; gorm stamps UpdatedAt with the current time, in the row and in the
\* record it was handed.  loadFromDB ignores its error.
dbUpdate(r, id, now) ==
    LET m == r.metas[id]
        key == versionKey(m.name, m.version)
    IN [r EXCEPT !.metas[id].updatedAt = now,
                 !.db[key].updatedAt = now]

\* db.Where("name = ? AND version = ?").Delete(&FunctionMetadata{}) sets
\* deleted_at on the matching rows.
dbDelete(r, funcName, version, env) ==
    LET key == versionKey(funcName, version)
    IN IF env.fault = "db" THEN [err |-> "delete", r |-> r]
       ELSE IF key \in DOMAIN r.db
       THEN [err |-> "", r |-> [r EXCEPT !.db[key].deleted = TRUE]]
       ELSE [err |-> "", r |-> r]

\* ---------------------------------------------------------------- the heap

\* A record no map refers to is unreachable for the program.
Referenced(r) ==
    {r.versionMap[k] : k \in DOMAIN r.versionMap} \cup {r.funcs[n] : n \in DOMAIN r.funcs}

Collect(r) == [r EXCEPT !.metas = [i \in DOMAIN r.metas \cap Referenced(r) |-> r.metas[i]]]

NewId(r) ==
    CHOOSE i \in MetaIds \ DOMAIN r.metas : \A j \in MetaIds \ DOMAIN r.metas : i <= j

\* The code a deploy request for a version carries: the worker that answers
\* with the name of the version.
CodeFor(version) == version

\* The clock counts in ticks; the layout "20060102150405" has no field below
\* the second.
TicksPerSecond == 2

\* time.Time.Format("20060102150405") of an instant: the 14 digits of its
\* second, the clock being at 2025-01-01 00:00:00 at tick 0.
Format(at) ==
    <<"20250101000000", "20250101000001", "20250101000002", "20250101000003",
      "20250101000004", "20250101000005">>[(at \div TicksPerSecond) + 1]

\* The version DeployHandler gives the record: that of the request or, for
\* an empty one, the time of the call.
AssignedVersion(version, at) == IF version = "" THEN Format(at) ELSE version

\* The record DeployHandler builds for a request.
NewMeta(funcName, version, alias, code, envVars) ==
    [name |-> funcName, version |-> version, alias |-> alias,
     subdomain |-> generateVersionSubdomain(funcName, version),
     code |-> code, envVars |-> envVars,
     codePath |-> <<>>, confPath |-> <<>>, logPath |-> <<>>,
     pid |-> 0, port |-> 0, updatedAt |-> 0, status |-> "", lastAccessed |-> 0]

\* ----------------------------------------------------------------- methods

\* RegisterOrUpdate(meta): [err, r, id].
RegisterOrUpdate(r, meta, env) ==
    LET id == NewId(r)
        funcName == meta.name
        version == meta.version
        alias == meta.alias
        key == versionKey(funcName, version)
        r1 == [r EXCEPT !.aliasMap = Put(@, <<funcName, "latest">>, version),
                        !.metas = Put(@, id, meta)]
    IN IF env.fault = "port" \/ FreePorts(r) = {}
       THEN [err |-> "get free port", r |-> r1, id |-> id]
       ELSE
       LET r2 == [r1 EXCEPT !.metas[id].port = env.port]
           started == startWorkerd(r2, id, env)
       IN IF started.err # ""
          THEN [err |-> "start new version", r |-> started.r, id |-> id]
          ELSE
          LET r3 == started.r
              aliasKey == <<funcName, alias>>
              oldKey == versionKey(funcName, r3.aliasMap[aliasKey])
              r4 == IF alias = "" THEN r3
                    ELSE LET dropped ==
                                 IF aliasKey \in DOMAIN r3.aliasMap
                                    /\ oldKey \in DOMAIN r3.versionMap
                                 THEN Del(r3.subdomainMap,
                                          r3.metas[r3.versionMap[oldKey]].subdomain)
                                 ELSE r3.subdomainMap
                         IN [r3 EXCEPT
                               !.aliasMap = Put(@, aliasKey, version),
                               !.subdomainMap =
                                   Put(dropped, generateAliasSubdomain(funcName, alias), key)]
              r5 == [r4 EXCEPT !.funcs = Put(@, funcName, id),
                               !.metas[id].updatedAt = Now]
              saved == dbSave(r5, id, env)
          IN IF saved.err # ""
             THEN [err |-> "save to db", r |-> saved.r, id |-> id]
             ELSE [err |-> "",
                   r |-> [saved.r EXCEPT
                            !.versionMap = Put(@, key, id),
                            !.subdomainMap = Put(@, r5.metas[id].subdomain, key)],
                   id |-> id]

\* Rollback past the lookup of the target: the target is started when it
\* has no pid, the alias is moved, funcs and the alias host are set.
RollbackTarget(r, alias, funcName, targetVersion, env) ==
    LET targetKey == versionKey(funcName, targetVersion)
        id == r.versionMap[targetKey]
        started == IF r.metas[id].pid = 0
                   THEN startWorkerd(r, id, env)
                   ELSE [err |-> "", r |-> r]
    IN IF started.err # ""
       THEN [err |-> "start target version", r |-> started.r]
       ELSE
       LET r1 == started.r
           aliasKey == <<funcName, alias>>
           r2 == IF alias # ""
                 THEN [r1 EXCEPT
                         !.subdomainMap =
                             IF aliasKey \in DOMAIN r1.aliasMap
                                /\ versionKey(funcName, r1.aliasMap[aliasKey])
                                       \in DOMAIN r1.versionMap
                             THEN Del(@, generateAliasSubdomain(funcName, alias))
                             ELSE @,
                         !.aliasMap = Put(@, aliasKey, targetVersion)]
                 ELSE r1
           used == IF alias # "" THEN alias ELSE r1.metas[id].alias
       IN [err |-> "",
           r |-> [r2 EXCEPT
                    !.funcs = Put(@, funcName, id),
                    !.subdomainMap =
                        Put(@, generateAliasSubdomain(funcName, used), targetKey)]]

\* Rollback with the alias moved before the target is looked up.
RollbackAliasFirst(r, alias, funcName, targetVersion, env) ==
    IF versionKey(funcName, targetVersion) \notin DOMAIN r.versionMap
    THEN [err |-> "target version not found",
          r |-> IF alias # ""
                THEN [r EXCEPT !.aliasMap = Put(@, <<funcName, alias>>, targetVersion)]
                ELSE r]
    ELSE RollbackTarget(r, alias, funcName, targetVersion, env)

\* Rollback(alias, funcName, targetVersion): [err, r].
Rollback(r, alias, funcName, targetVersion, env) ==
    IF versionKey(funcName, targetVersion) \notin DOMAIN r.versionMap
    THEN [err |-> "target version not found", r |-> r]
    ELSE RollbackTarget(r, alias, funcName, targetVersion, env)

\* Find(&metas) with no filter on deleted_at: every row of the table.
RowsWithDeleted(r) ==
    CHOOSE q \in [1..Cardinality(DOMAIN r.db) -> DOMAIN r.db] :
        \A i, j \in DOMAIN q : i < j => r.db[q[i]].seq < r.db[q[j]].seq

\* The rows of db.Where("deleted_at IS NULL").Find(&metas), in the order of
\* their primary key.
RowsInOrder(r) ==
    LET live == {k \in DOMAIN r.db : ~r.db[k].deleted}
    IN CHOOSE q \in [1..Cardinality(live) -> live] :
           \A i, j \in DOMAIN q : i < j => r.db[q[i]].seq < r.db[q[j]].seq

\* The record Find builds from a row: Pid is not a column (gorm:"-"), and
\* loadFromDB resets the port before it asks for a new one.
MetaOfRow(r, key) ==
    [name |-> key[1], version |-> key[2], alias |-> r.db[key].alias,
     subdomain |-> generateVersionSubdomain(key[1], key[2]),
     code |-> r.db[key].code, envVars |-> r.db[key].envVars,
     codePath |-> codeFile([name |-> key[1]]), confPath |-> confFile([name |-> key[1]]),
     logPath |-> logFile([name |-> key[1]]),
     pid |-> 0, port |-> 0, updatedAt |-> r.db[key].updatedAt,
     status |-> "", lastAccessed |-> 0]

\* One turn of the loop of loadFromDB over st = [r, latestVersions, ok]; ok
\* turns FALSE when env names a port the kernel could not have handed out.
\* A row whose port or start fails is skipped (continue): its record is in no
\* map.
loadRow(st, key, env, now) ==
    LET id == NewId(st.r)
        r1 == [st.r EXCEPT !.metas = Put(@, id, MetaOfRow(st.r, key))]
    IN IF env.fault = "port" \/ FreePorts(st.r) = {} THEN st
       ELSE IF env.port \notin FreePorts(st.r) THEN [st EXCEPT !.ok = FALSE]
       ELSE
       LET r2 == [r1 EXCEPT !.metas[id].port = env.port]
           started == startWorkerd(r2, id, [env EXCEPT !.pid = PidAfter(r2)])
       IN IF started.err # "" THEN st
          ELSE
          LET r3 == started.r
              m == r3.metas[id]
              r4 == [r3 EXCEPT
                       !.versionMap = Put(@, key, id),
                       !.subdomainMap =
                           IF m.alias = "" THEN Put(@, m.subdomain, key)
                           ELSE Put(Put(@, m.subdomain, key),
                                    generateAliasSubdomain(m.name, m.alias), key),
                       !.aliasMap =
                           IF m.alias = "" THEN @
                           ELSE Put(@, <<m.name, m.alias>>, m.version)]
              newer == \/ m.name \notin DOMAIN r4.funcs
                       \/ m.updatedAt > r4.metas[r4.funcs[m.name]].updatedAt
              r5 == IF newer THEN [r4 EXCEPT !.funcs = Put(@, m.name, id)] ELSE r4
          IN [r |-> dbUpdate(r5, id, now),
              latestVersions |-> IF newer THEN Put(st.latestVersions, m.name, m.version)
                                 ELSE st.latestVersions,
              ok |-> st.ok]

\* The loop over the rows: the state after the first i of them.
loadRows(st, rows, envs, now) ==
    LET after[i \in 0..Len(rows)] ==
            IF i = 0 THEN st ELSE loadRow(after[i - 1], rows[i], envs[i], now)
    IN after[Len(rows)]

\* The last loop of loadFromDB: every function of latestVersions gets its
\* latest alias and, when the version is indexed, its latest host.
latestAliases(r, lv) ==
    LET named == DOMAIN lv
        hosts == {generateAliasSubdomain(n, "latest") :
                     n \in {x \in named : versionKey(x, lv[x]) \in DOMAIN r.versionMap}}
    IN [r EXCEPT
          !.aliasMap = [k \in DOMAIN @ \cup {<<n, "latest">> : n \in named} |->
                           IF k[2] = "latest" /\ k[1] \in named THEN lv[k[1]] ELSE @[k]],
          !.subdomainMap = [h \in DOMAIN @ \cup hosts |->
                               IF h \in hosts THEN versionKey(h[2], lv[h[2]]) ELSE @[h]]]

loadedRegistry(st) == [ok |-> st.ok, r |-> latestAliases(st.r, st.latestVersions)]

\* loadFromDB(): [r, ok], r0 being the registry Default has just made.
loadFromDB(r0, envs, now) ==
    loadedRegistry(loadRows([r |-> r0, latestVersions |-> Empty, ok |-> TRUE],
                            RowsInOrder(r0), envs, now))

\* DeleteVersion(funcName, version): [err, r].
DeleteVersion(r, funcName, version, env) ==
    LET key == versionKey(funcName, version)
    IN IF key \notin DOMAIN r.versionMap
       THEN [err |-> "version not found", r |-> r]
       ELSE
       LET id == r.versionMap[key]
           stopped == stopWorkerd(r, id, env)
       IN IF stopped.err # ""
          THEN [err |-> "stop version", r |-> stopped.r]
          ELSE
          LET deleted == dbDelete(stopped.r, funcName, version, env)
          IN IF deleted.err # ""
             THEN [err |-> "delete from db", r |-> deleted.r]
             ELSE
             LET r1 == deleted.r
                 hit == {k \in DOMAIN r1.aliasMap :
                            r1.aliasMap[k] = version /\ k[1] = funcName}
                 gone == {r1.metas[id].subdomain}
                             \cup {generateAliasSubdomain(funcName, k[2]) : k \in hit}
             IN [err |-> "",
                 r |-> [r1 EXCEPT
                          !.versionMap = Del(@, key),
                          !.subdomainMap = [h \in DOMAIN @ \ gone |-> @[h]],
                          !.aliasMap = [k \in DOMAIN @ \ hit |-> @[k]]]]

\* Status and LastAccessed are fields the proxy reads and writes
\* (src/unnamed/part_001); the registry that keeps them for the lifecycle
\* methods is not among the sources, and the actions give a record they
\* have started the status the specification (4.6) gives it: running, and
\* for a Deploy lastAccessed = now.
setStatus(r, id, status) == [r EXCEPT !.metas[id].status = status]

\* lastAccessed = now.
touch(r, id, now) == [r EXCEPT !.metas[id].lastAccessed = now]

\* StopFunction(funcName, version): [err, r], after the specification (4.6
\* Stop): the handler calls it, no source defines it.  The record is found, the
\* supervisor stops its process, the status becomes suspended, pid and port
\* are cleared, and no index changes.
StopFunction(r, funcName, version, env) ==
    LET key == versionKey(funcName, version)
    IN IF key \notin DOMAIN r.versionMap
       THEN [err |-> "version not found", r |-> r]
       ELSE
       LET id == r.versionMap[key]
           stopped == stopWorkerd(r, id, env)
       IN IF stopped.err # ""
          THEN [err |-> "stop function", r |-> stopped.r]
          ELSE [err |-> "",
                r |-> [setStatus(stopped.r, id, "suspended") EXCEPT !.metas[id].port = 0]]

\* The request is forwarded to 127.0.0.1:{meta.Workerd.Port}.
forward(r, id) == [err |-> "", r |-> r, port |-> r.metas[id].port]

\* ProxyHandler forwarding a woken record's request to the port the record
\* had before the wake.
ProxyStalePort(r, host, env, now) ==
    LET id == Resolve(r, host)
    IN IF id = NotFound
       THEN [err |-> "404 function not found", r |-> r, port |-> 0]
       ELSE IF r.metas[id].status \in {"", "suspended"}
       THEN IF env.fault = "port" \/ FreePorts(r) = {}
            THEN [err |-> "500 failed to get free port", r |-> r, port |-> 0]
            ELSE LET started == startWorkerd([r EXCEPT !.metas[id].port = env.port], id, env)
                 IN IF started.err # ""
                    THEN [err |-> "500 failed to wake up function", r |-> started.r, port |-> 0]
                    ELSE [err |-> "",
                          r |-> touch(setStatus(started.r, id, "running"), id, now),
                          port |-> r.metas[id].port]
       ELSE forward(touch(r, id, now), id)

\* The wake of ProxyHandler: a free port is put in the record, the process is
\* started, the status becomes running and lastAccessed is set: [err, r].
wakeUp(r, id, env, now) ==
    IF env.fault = "port" \/ FreePorts(r) = {}
    THEN [err |-> "500 failed to get free port", r |-> r]
    ELSE LET started == startWorkerd([r EXCEPT !.metas[id].port = env.port], id, env)
         IN IF started.err # ""
            THEN [err |-> "500 failed to wake up function", r |-> started.r]
            ELSE [err |-> "", r |-> touch(setStatus(started.r, id, "running"), id, now)]

\* The locked section of ProxyHandler with no look at the status of the
\* record: every request wakes it.
wakeUnchecked(r, id, env, now) == wakeUp(r, id, env, now)

\* ProxyHandler from reg.Mu.Lock() to reg.Mu.Unlock(), on the record its
\* lookup has returned: [err, r].  A record whose status is "" or
\* "suspended" is woken; lastAccessed is set.
wake(r, id, env, now) ==
    IF r.metas[id].status \in {"", "suspended"}
    THEN wakeUp(r, id, env, now)
    ELSE [err |-> "", r |-> touch(r, id, now)]

\* ProxyHandler for a request with Host host: [err, r, port], err being ""
\* for a forwarded request and the answer of http.Error otherwise.
ProxyHandler(r, host, env, now) ==
    LET id == Resolve(r, host)
    IN IF id = NotFound
       THEN [err |-> "404 function not found", r |-> r, port |-> 0]
       ELSE LET woken == wake(r, id, env, now)
            IN IF woken.err # ""
               THEN [err |-> woken.err, r |-> woken.r, port |-> 0]
               ELSE forward(woken.r, id)

\* The idle checker is described (README, specification 4.6) and in no
\* source file; it is modelled after the specification.  A record counts as
\* idle when now - lastAccessed exceeds the threshold.
IdleThreshold == 1

\* The idle checker with no exemption for the latest record.
idleVictimsAll(r, now) ==
    {k \in DOMAIN r.versionMap :
        /\ r.metas[r.versionMap[k]].status = "running"
        /\ now - r.metas[r.versionMap[k]].lastAccessed > IdleThreshold}

\* The keys the idle checker stops: the running records that have been idle
\* beyond the threshold and are not the latest record of their function.
idleVictims(r, now) ==
    {k \in DOMAIN r.versionMap :
        /\ r.metas[r.versionMap[k]].status = "running"
        /\ now - r.metas[r.versionMap[k]].lastAccessed > IdleThreshold
        /\ ~(k[1] \in DOMAIN r.funcs /\ r.funcs[k[1]] = r.versionMap[k])}

\* One pass of the idle checker: Stop for every victim, a failing Stop being
\* logged and passed over.
idleCheck(r, now, env) ==
    LET victims == idleVictims(r, now)
        order == CHOOSE q \in [1..Cardinality(victims) -> victims] :
                     \A i, j \in DOMAIN q : i # j => q[i] # q[j]
        after[i \in 0..Cardinality(victims)] ==
            IF i = 0 THEN r
            ELSE StopFunction(after[i - 1], order[i][1], order[i][2], env).r
    IN after[Cardinality(victims)]

\* ----------------------------------------------------------------- actions

StatusOK == 200

StatusBadRequest == 400

StatusNotFound == 404

StatusInternalServerError == 500

\* The error of c.ShouldBindJSON for a body without its required version.
BindError == "bad request"

\* The status a lifecycle handler answers with: 400 for a body that does not
\* bind, 500 for every error the registry returns, 200 otherwise.
HandlerStatus(err) ==
    IF err = BindError THEN StatusBadRequest
    ELSE IF err # "" THEN StatusInternalServerError
    ELSE StatusOK

\* The status of a proxied request: that of http.Error, or 200 for a request
\* handed to the reverse proxy.
ProxyStatus(err) ==
    IF err = "" THEN StatusOK
    ELSE IF err = "404 function not found" THEN StatusNotFound
    ELSE StatusInternalServerError

\* The call that completed last: its arguments and the error it returned
\* ("" for nil); for a proxied request its Host, the port it was forwarded to
\* and the key of the record it woke; for a pass of the idle checker the
\* keys it stopped; for a deploy without a version the instant at which the
\* handler read the clock.
\* code is the HTTP status of the answer, 0 where there is none.
Call(op, funcName, version, alias, err) ==
    [op |-> op, name |-> funcName, version |-> version, alias |-> alias, err |-> err,
     code |-> IF op \in {"Deploy", "Rollback", "Delete", "Stop"} THEN HandlerStatus(err)
              ELSE IF op = "Proxy" THEN ProxyStatus(err)
              ELSE 0,
     host |-> <<>>, port |-> 0, affected |-> {}, at |-> 0]

\* The proxy requests a behaviour follows.
ReqIds == {1, 2}

\* A request that has not arrived.  A request that has arrived holds its
\* host, the record its lookup has returned (id), the status that record had
\* then (was), the number of lifecycle calls made before it arrived (at),
\* whether its wake has started a process that lives (woke), the answer of
\* http.Error if one was given (err) and the port it was forwarded to.
Idle ==
    [pc |-> "idle", host |-> <<>>, version |-> "", got |-> <<>>, seen |-> {},
     id |-> NotFound, was |-> "", at |-> 0, woke |-> FALSE, err |-> "", port |-> 0]

\* The records the handlers of the requests in progress hold a pointer to.
Held == {reqs[i].id : i \in {j \in ReqIds : reqs[j].pc \in {"wake", "forward"}}}

\* The registry, the store and the process table as a call leaves them; a
\* record a request still points to stays on the heap.
CommitRegistry(out, call) ==
    LET r == [out EXCEPT !.metas = [i \in DOMAIN @ \cap (Referenced(out) \cup Held) |-> @[i]]]
    IN /\ ops' = ops + 1
       /\ metas' = r.metas
       /\ versionMap' = r.versionMap
       /\ funcs' = r.funcs
       /\ aliasMap' = r.aliasMap
       /\ subdomainMap' = r.subdomainMap
       /\ db' = r.db
       /\ procs' = r.procs
       /\ last' = call

\* Where a request is while its lookup runs.
LookupPcs == {"subdomain", "alias", "version", "name"}

\* What a lookup returns: the record, with the version it is of.
Found(r, id) ==
    IF id = NotFound THEN <<NotFound>>
    ELSE <<id, r.metas[id].name, r.metas[id].version>>

\* The end of a call, which runs from r.mu.Lock() to the deferred Unlock():
\* the lock is released, and the requests in their lookup live on in the
\* state the call has made.
Commit(out, call) ==
    /\ CommitRegistry(out, call)
    /\ mu' = [mu EXCEPT !.writer = "none"]
    /\ reqs' = [i \in ReqIds |->
                   IF reqs[i].pc \notin LookupPcs THEN reqs[i]
                   ELSE [reqs[i] EXCEPT
                           !.seen = @ \cup {Found(Collect(out),
                                                  Resolve(Collect(out), reqs[i].host))}]]

\* Default() on an empty storage directory: empty maps, an empty table.
Init ==
    /\ metas = Empty
    /\ versionMap = Empty
    /\ funcs = Empty
    /\ aliasMap = Empty
    /\ subdomainMap = Empty
    /\ db = Empty
    /\ procs = Empty
    /\ last = Call("init", "", "", "", "")
    /\ ops = 0
    /\ mu = [readers |-> 0, writer |-> "none"]
    /\ reqs = [i \in ReqIds |-> Idle]

NextPid == PidAfter(Cur)

\* The answers of the environment to one start: a fault, or none and the
\* ports that accept a connection while the probe runs.
StartEnvs(port) ==
    {Env(f, port, NextPid, {}) : f \in {"code", "conf", "log", "spawn"}}
        \cup {Env(NoFault, port, NextPid, a) : a \in Accepting}

\* DeployHandler for every request and every answer of the environment.
DeployCall ==
    \E funcName \in Names, version \in Versions, alias \in Aliases, envVars \in EnvMaps :
        \E port \in (IF FreePorts(Cur) = {} THEN {0} ELSE FreePorts(Cur)) :
            \E env \in StartEnvs(port) \cup {Env("port", 0, NextPid, {}), Env("db", port, NextPid, ForeignPorts)} :
                LET meta == NewMeta(funcName, version, alias, CodeFor(version), envVars)
                    out == RegisterOrUpdate(Cur, meta, env)
                    r == IF out.err = ""
                         THEN touch(setStatus(out.r, out.id, "running"), out.id, Now)
                         ELSE out.r
                IN Commit(r, Call("Deploy", funcName, version, alias, out.err))

\* POST /api/deploy/:funcName (DeployHandler).
Deploy ==
    /\ ops < MaxOps
    /\ DeployCall

\* POST /api/rollback/:funcName (RollbackHandler).
RollbackCall ==
    \E funcName \in Names, version \in Versions, alias \in Aliases :
        \E env \in StartEnvs(0) :
            LET out == Rollback(Cur, alias, funcName, version, env)
                id == GetByVersion(Cur, funcName, version)
                r == IF out.err = "" /\ metas[id].pid = 0
                     THEN setStatus(out.r, id, "running")
                     ELSE out.r
            IN Commit(r, Call("Rollback", funcName, version, alias, out.err))

DoRollback ==
    /\ ops < MaxOps
    /\ \/ RollbackCall
       \/ \E funcName \in Names :
              Commit(Cur, Call("Rollback", funcName, "", "", BindError))

\* POST /api/delete/:funcName/version (DeleteVersionHandler).
DeleteVersionCall ==
    \E funcName \in Names, version \in Versions :
        \E fault \in {NoFault, "stop", "db"} :
            LET out == DeleteVersion(Cur, funcName, version, Env(fault, 0, NextPid, {}))
            IN Commit(out.r, Call("Delete", funcName, version, "", out.err))

DoDeleteVersion ==
    /\ ops < MaxOps
    /\ DeleteVersionCall

\* POST /api/stop/:funcName (StopHandler).
DoStop ==
    /\ ops < MaxOps
    /\ \E funcName \in Names, version \in Versions :
           \E fault \in {NoFault, "stop"} :
               LET out == StopFunction(Cur, funcName, version, Env(fault, 0, NextPid, {}))
               IN Commit(out.r, Call("Stop", funcName, version, "", out.err))

\* What the environment answers to the start of one row at load time.
RowEnvs ==
    {Env(f, p, 0, {}) : f \in {"code", "conf", "log", "spawn"}, p \in Ports}
        \cup {Env("port", 0, 0, {})}
        \cup {Env(NoFault, p, 0, a) : p \in Ports, a \in Accepting}

\* The platform is shut down and started again: Default() makes the maps
\* anew and loads the table.  The children of the platform that was shut
\* down are gone with it; the process table holds those of the new one.
Restart ==
    LET r0 == [metas |-> Empty, versionMap |-> Empty, funcs |-> Empty,
               aliasMap |-> Empty, subdomainMap |-> Empty, db |-> db,
               procs |-> Empty]
    IN /\ ops < MaxOps
       /\ \E envs \in [1..Len(RowsInOrder(r0)) -> RowEnvs] :
              LET out == loadFromDB(r0, envs, Now)
                  r == [out.r EXCEPT
                          !.metas = [i \in DOMAIN @ |->
                                        [@[i] EXCEPT !.status = "running",
                                                     !.lastAccessed = Now]]]
              IN /\ out.ok
                 /\ Commit(r, Call("Restart", "", "", "", ""))

\* A request on the proxy port (ProxyHandler).
Proxy ==
    /\ ops < MaxOps
    /\ \E host \in Hosts :
           \E port \in (IF FreePorts(Cur) = {} THEN {0} ELSE FreePorts(Cur)) :
               \E env \in StartEnvs(port) \cup {Env("port", 0, NextPid, {})} :
                   LET out == ProxyHandler(Cur, host, env, Now)
                       woken == IF out.err = "" /\ metas[Resolve(Cur, host)].status # "running"
                                THEN {ResolvedKey(Cur, host)}
                                ELSE {}
                   IN Commit(out.r, [Call("Proxy", "", "", "", out.err) EXCEPT
                                       !.host = host, !.port = out.port,
                                       !.affected = woken])

\* A tick of the idle checker.
IdleCheck ==
    /\ ops < MaxOps
    /\ \E fault \in {NoFault, "stop"} :
           LET r == idleCheck(Cur, Now, Env(fault, 0, NextPid, {}))
               stopped == {k \in DOMAIN versionMap :
                              r.metas[versionMap[k]].status # metas[versionMap[k]].status}
           IN Commit(r, [Call("IdleCheck", "", "", "", "") EXCEPT !.affected = stopped])

\* The number of deploys without a version a behaviour makes.
MaxUnversioned == 3

\* POST /api/deploy/:funcName with no version in the body, at an instant
\* later than that of the deploy before.
DeployUnversioned ==
    /\ ops < MaxUnversioned
    /\ \E funcName \in Names, alias \in Aliases, envVars \in EnvMaps :
           \E at \in (last.at + 1)..(last.at + TicksPerSecond) :
               \E port \in (IF FreePorts(Cur) = {} THEN {0} ELSE FreePorts(Cur)) :
                   \E env \in StartEnvs(port) \cup {Env("port", 0, NextPid, {}), Env("db", port, NextPid, ForeignPorts)} :
                       LET version == AssignedVersion("", at)
                           meta == NewMeta(funcName, version, alias, CodeFor(""), envVars)
                           out == RegisterOrUpdate(Cur, meta, env)
                           r == IF out.err = ""
                                THEN touch(setStatus(out.r, out.id, "running"), out.id, Now)
                                ELSE out.r
                       IN Commit(r, [Call("Deploy", funcName, version, alias, out.err)
                                         EXCEPT !.at = at])

NextUnversioned == DeployUnversioned

\* The platform receiving deploys without a version only.
SpecUnversioned == Init /\ [][NextUnversioned]_vars

\* The number of lifecycle calls a behaviour with requests in their lookup
\* makes.
MaxLockOps == 2

\* The requests that are followed through the three lookups one by one.
TieredIds == {1}

\* r.mu.RLock() returns: no writer holds the lock or waits in Lock() (a
\* sync.RWMutex lets no new reader in once a writer waits).
RLockFree == mu.writer = "none"

\* r.mu.Lock() returns: the writer has announced itself and no reader holds
\* the lock.
LockFree == mu.writer = "pending" /\ mu.readers = 0

\* A request arrives at ProxyHandler.  seen collects what its host resolves
\* to in every state of the registry from now until the lookup has returned.
Request(i) ==
    /\ reqs[i].pc = "idle"
    /\ \E host \in Hosts :
           reqs' = [reqs EXCEPT ![i] = [Idle EXCEPT
                                          !.pc = "subdomain", !.host = host,
                                          !.seen = {Found(Cur, Resolve(Cur, host))}]]
    /\ UNCHANGED <<metas, versionMap, funcs, aliasMap, subdomainMap, db, procs, last, ops, mu>>

\* reg.GetBySubdomain(subdomain): the read lock is taken, both maps are read,
\* the lock is released.
LookupSubdomain(i) ==
    /\ reqs[i].pc = "subdomain"
    /\ RLockFree
    /\ LET id == GetBySubdomain(Cur, reqs[i].host)
       IN reqs' = [reqs EXCEPT ![i] =
                      IF id # NotFound
                      THEN [@ EXCEPT !.pc = "done", !.got = Found(Cur, id)]
                      ELSE [@ EXCEPT !.pc = "alias"]]
    /\ UNCHANGED <<metas, versionMap, funcs, aliasMap, subdomainMap, db, procs, last, ops, mu>>

\* reg.GetByAlias(subdomain) up to its call of GetByVersion: the read lock is
\* taken and the alias is read; with no alias the lock is released and the
\* lookup has missed, else the lock is kept for the call that follows.
LookupAlias(i) ==
    /\ reqs[i].pc = "alias"
    /\ RLockFree
    /\ LET host == reqs[i].host
           hit == Len(host) >= 2 /\ <<host[2], host[1]>> \in DOMAIN aliasMap
       IN /\ reqs' = [reqs EXCEPT ![i] =
                         IF hit
                         THEN [@ EXCEPT !.pc = "version",
                                        !.version = aliasMap[<<host[2], host[1]>>]]
                         ELSE [@ EXCEPT !.pc = "name"]]
          /\ mu' = IF hit THEN [mu EXCEPT !.readers = @ + 1] ELSE mu
    /\ UNCHANGED <<metas, versionMap, funcs, aliasMap, subdomainMap, db, procs, last, ops>>

\* r.GetByVersion(funcName, version) called by GetByAlias: the read lock is
\* taken a second time, the record is read, and both read locks are
\* released as the two calls return.
LookupVersion(i) ==
    /\ reqs[i].pc = "version"
    /\ RLockFree
    /\ LET id == GetByVersion(Cur, reqs[i].host[2], reqs[i].version)
       IN reqs' = [reqs EXCEPT ![i] =
                      IF id # NotFound
                      THEN [@ EXCEPT !.pc = "done", !.got = Found(Cur, id)]
                      ELSE [@ EXCEPT !.pc = "name"]]
    /\ mu' = [mu EXCEPT !.readers = @ - 1]
    /\ UNCHANGED <<metas, versionMap, funcs, aliasMap, subdomainMap, db, procs, last, ops>>

\* reg.GetByName(first label), the last lookup of the handler.
LookupName(i) ==
    /\ reqs[i].pc = "name"
    /\ RLockFree
    /\ reqs' = [reqs EXCEPT ![i] =
                   [@ EXCEPT !.pc = "done",
                             !.got = Found(Cur, GetByName(Cur, reqs[i].host[1]))]]
    /\ UNCHANGED <<metas, versionMap, funcs, aliasMap, subdomainMap, db, procs, last, ops, mu>>

\* A lifecycle call enters r.mu.Lock().
WriterLock ==
    /\ ops < MaxLockOps
    /\ mu.writer = "none"
    /\ mu' = [mu EXCEPT !.writer = "pending"]
    /\ UNCHANGED <<metas, versionMap, funcs, aliasMap, subdomainMap, db, procs, last, ops, reqs>>

\* RegisterOrUpdate, Rollback and DeleteVersion from Lock() to Unlock().
LockedDeploy == LockFree /\ DeployCall

LockedRollback == LockFree /\ RollbackCall

LockedDeleteVersion == LockFree /\ DeleteVersionCall

NextLock ==
    \/ \E i \in TieredIds : Request(i)
    \/ \E i \in TieredIds : LookupSubdomain(i)
    \/ \E i \in TieredIds : LookupAlias(i)
    \/ \E i \in TieredIds : LookupVersion(i)
    \/ \E i \in TieredIds : LookupName(i)
    \/ WriterLock
    \/ LockedDeploy
    \/ LockedRollback
    \/ LockedDeleteVersion

\* Lifecycle calls and the lookups of proxy requests, interleaved at the
\* calls of the lock.
SpecLock == Init /\ [][NextLock]_vars

\* The number of lifecycle calls a behaviour with requests past their lookup
\* makes.
MaxWakeOps == 2

\* The hosts of those requests: the version hosts and the function hosts.
WakeHosts ==
    {generateVersionSubdomain(n, v) : n \in Names, v \in Versions}
        \cup {FunctionHost(n) : n \in Names}

\* ProxyHandler up to reg.Mu.Lock(): the three lookups, which hold the read
\* lock in turn and are followed here in one step; with no record the
\* request is answered 404.  Requests arrive in the order of their numbers.
ProxyLookup(i) ==
    /\ reqs[i].pc = "idle"
    /\ \A j \in ReqIds : j < i => reqs[j].pc # "idle"
    /\ \E host \in WakeHosts :
           LET id == Resolve(Cur, host)
           IN reqs' = [reqs EXCEPT ![i] =
                          IF id = NotFound
                          THEN [Idle EXCEPT !.pc = "done", !.host = host, !.at = ops,
                                            !.err = "404 function not found"]
                          ELSE [Idle EXCEPT !.pc = "wake", !.host = host, !.at = ops,
                                            !.id = id, !.was = metas[id].status]]
    /\ UNCHANGED <<metas, versionMap, funcs, aliasMap, subdomainMap, db, procs, last, ops, mu>>

\* ProxyHandler from reg.Mu.Lock() to reg.Mu.Unlock(): the status of the
\* record is looked at, the record is woken when it is not running, and
\* lastAccessed is set.  A failed wake is answered 500.
ProxyWake(i) ==
    /\ reqs[i].pc = "wake"
    /\ mu.writer = "none"
    /\ \E port \in (IF FreePorts(Cur) = {} THEN {0} ELSE FreePorts(Cur)) :
           \E env \in StartEnvs(port) \cup {Env("port", 0, NextPid, {})} :
               LET out == wake(Cur, reqs[i].id, env, Now)
               IN /\ metas' = out.r.metas
                  /\ procs' = out.r.procs
                  /\ reqs' = [reqs EXCEPT ![i] =
                                 IF out.err # ""
                                 THEN [@ EXCEPT !.pc = "done", !.err = out.err]
                                 ELSE [@ EXCEPT !.pc = "forward",
                                                !.woke = DOMAIN out.r.procs # DOMAIN procs]]
    /\ UNCHANGED <<versionMap, funcs, aliasMap, subdomainMap, db, last, ops, mu>>

\* ProxyHandler past the lock: meta.Workerd.Port is read and the request is
\* forwarded to it.
ProxyForward(i) ==
    /\ reqs[i].pc = "forward"
    /\ reqs' = [reqs EXCEPT ![i] =
                   [@ EXCEPT !.pc = "done",
                             !.port = forward(Cur, reqs[i].id).port]]
    /\ UNCHANGED <<metas, versionMap, funcs, aliasMap, subdomainMap, db, procs, last, ops, mu>>

\* The lifecycle calls made while requests are in progress: each holds the
\* write lock from its first line to its last.
WakeDeploy == ops < MaxWakeOps /\ Deploy

WakeStop == ops < MaxWakeOps /\ DoStop

WakeDeleteVersion == ops < MaxWakeOps /\ DoDeleteVersion

WakeIdleCheck == ops < MaxWakeOps /\ IdleCheck

NextWake ==
    \/ \E i \in ReqIds : ProxyLookup(i)
    \/ \E i \in ReqIds : ProxyWake(i)
    \/ \E i \in ReqIds : ProxyForward(i)
    \/ WakeDeploy
    \/ WakeStop
    \/ WakeDeleteVersion
    \/ WakeIdleCheck

\* Lifecycle calls and proxy requests, interleaved at the lock of the wake.
SpecWake == Init /\ [][NextWake]_vars

\* The ports the probe is called with: ports the kernel hands out, the ports
\* of foreign listeners, and a port beyond the code points of the digits.
ProbePorts == Ports \cup ForeignPorts \cup {8080}

\* waitPortListening("127.0.0.1", port) returns, the listeners on the loopback
\* interface being those of accepting for the five seconds it runs.
Probe ==
    /\ \E port \in ProbePorts, accepting \in SUBSET ProbePorts :
           last' = [op |-> "waitPortListening", port |-> port, accepting |-> accepting,
                    err |-> IF waitPortListening(port, accepting) THEN ""
                            ELSE "port not listening after 5s"]
    /\ UNCHANGED <<metas, versionMap, funcs, aliasMap, subdomainMap, db, procs, ops, mu, reqs>>

NextProbe == Probe

\* The readiness probe alone, called with every port and every set of
\* listeners.
SpecProbe == Init /\ [][NextProbe]_vars

Next ==
    \/ Deploy
    \/ DoRollback
    \/ DoDeleteVersion
    \/ DoStop
    \/ Restart
    \/ Proxy
    \/ IdleCheck

Spec == Init /\ [][Next]_vars

\* ------------------------------------------------------------------ claims

\* The four index maps, with the records the maps lead to.
Index == <<versionMap, funcs, aliasMap, subdomainMap, metas>>

\* C1: every entry of the alias index, the reserved alias "latest"
\* included, names a version that is in versions.
C1_AliasesReferenceVersions ==
    \A k \in DOMAIN aliasMap : versionKey(k[1], aliasMap[k]) \in DOMAIN versionMap

\* C2: after Delete(name, version) has succeeded, also of the version that
\* is latest, the record GetByName returns for a function is in versions.
C2_LatestExistsAfterDelete ==
    (last.op = "Delete" /\ last.err = "") =>
        \A n \in DOMAIN funcs :
            LET m == metas[GetByName(Cur, n)]
            IN GetByVersion(Cur, m.name, m.version) = GetByName(Cur, n)

\* C3: after a successful Rollback or Delete every key of the subdomain
\* index maps to a version that is in versions, and no key is built from an
\* empty alias.
C3_SubdomainsReferenceVersions ==
    (last.op \in {"Rollback", "Delete"} /\ last.err = "") =>
        \A h \in DOMAIN subdomainMap :
            subdomainMap[h] \in DOMAIN versionMap /\ h[1] # ""

\* C4: a Deploy that fails at port allocation, rendering, spawn or the
\* readiness probe leaves versions, latest, aliases and the subdomain index
\* as they were.
C4_FailedStartLeavesIndex ==
    [][(last'.op = "Deploy" /\ last'.err \in {"get free port", "start new version"})
           => UNCHANGED Index]_vars

\* A record's process is live.
Running(r, id) == r.metas[id].pid \in DOMAIN r.procs

\* C5: a successful Deploy of one version leaves every other version of the
\* function that was running and addressable by its version host running
\* and addressable by that host.
C5_ZeroDowntime ==
    [][(last'.op = "Deploy" /\ last'.err = "") =>
           \A k \in DOMAIN versionMap :
               (/\ k[1] = last'.name
                /\ k[2] # last'.version
                /\ Running(Cur, versionMap[k])
                /\ Resolve(Cur, generateVersionSubdomain(k[1], k[2])) = versionMap[k])
               => (/\ k \in DOMAIN versionMap'
                   /\ versionMap'[k] = versionMap[k]
                   /\ Running(Cur', versionMap[k])
                   /\ Resolve(Cur', generateVersionSubdomain(k[1], k[2])) = versionMap[k])]_vars

\* The hosts of a record: version, alias latest, bare function, alias.
ResolvesTo(host, funcName, version) ==
    /\ versionKey(funcName, version) \in DOMAIN versionMap
    /\ Resolve(Cur, host) = versionMap[versionKey(funcName, version)]

\* C6: when Deploy(name, version, alias) has succeeded, the version host,
\* latest.{name}, the bare {name} host and, for a non-empty alias, the alias
\* host all resolve to the record just deployed.
C6_DeployedHostsResolve ==
    (last.op = "Deploy" /\ last.err = "") =>
        /\ ResolvesTo(generateVersionSubdomain(last.name, last.version), last.name, last.version)
        /\ ResolvesTo(generateAliasSubdomain(last.name, "latest"), last.name, last.version)
        /\ ResolvesTo(FunctionHost(last.name), last.name, last.version)
        /\ last.alias # "" =>
               ResolvesTo(generateAliasSubdomain(last.name, last.alias), last.name, last.version)

\* Every alias of the alias index names a version that is in versions.
AliasIndexSound ==
    \A k \in DOMAIN aliasMap : versionKey(k[1], aliasMap[k]) \in DOMAIN versionMap

\* C7: when Rollback(name, targetVersion) has succeeded (and every alias
\* names an indexed version), the latest entry of the function is the target
\* and both {name} and latest.{name} resolve to the target.
C7_RollbackMovesLatest ==
    (last.op = "Rollback" /\ last.err = "" /\ AliasIndexSound) =>
        /\ versionKey(last.name, last.version) \in DOMAIN versionMap
        /\ GetByName(Cur, last.name) = versionMap[versionKey(last.name, last.version)]
        /\ ResolvesTo(FunctionHost(last.name), last.name, last.version)
        /\ ResolvesTo(generateAliasSubdomain(last.name, "latest"), last.name, last.version)

\* The alias a Rollback moves: the one supplied or, for none, the one the
\* target record stores.
MovedAlias ==
    IF last.alias # "" THEN last.alias
    ELSE metas[versionMap[versionKey(last.name, last.version)]].alias

\* C8: when Rollback(name, targetVersion, alias) has succeeded (and every
\* alias names an indexed version), the alias it moves, when it is not
\* empty, points to the target in the alias index and its host resolves to
\* the target.
C8_RollbackMovesAlias ==
    (last.op = "Rollback" /\ last.err = "" /\ AliasIndexSound /\ MovedAlias # "") =>
        /\ <<last.name, MovedAlias>> \in DOMAIN aliasMap
        /\ aliasMap[<<last.name, MovedAlias>>] = last.version
        /\ ResolvesTo(generateAliasSubdomain(last.name, MovedAlias), last.name, last.version)

\* C9: a Rollback (of a request that binds) to a (name, targetVersion) that
\* is not in versions returns the not-found error and changes no index, no
\* record, no row of the store and no process.
C9_RollbackMissingTarget ==
    [][(last'.op = "Rollback"
        /\ last'.err # BindError
        /\ versionKey(last'.name, last'.version) \notin DOMAIN versionMap)
           => (/\ last'.err = "target version not found"
               /\ UNCHANGED <<Index, db, procs>>)]_vars

\* A Rollback to a missing version has returned while another version of
\* the function was indexed and running.
C9_Witness ==
    /\ last.op = "Rollback"
    /\ last.err = "target version not found"
    /\ versionKey(last.name, last.version) \notin DOMAIN versionMap
    /\ \E k \in DOMAIN versionMap : k[1] = last.name /\ Running(Cur, versionMap[k])

\* C10: a Rollback that returns an error leaves the index and the process
\* table as they were: no map entry differs, no record holds another pid or
\* port, and no process is added.
C10_FailedRollbackLeavesAll ==
    [][(last'.op = "Rollback" /\ last'.err # "") => UNCHANGED <<Index, procs>>]_vars

\* C11: a Deploy that fails at the store write, after its child has started,
\* returns with that child killed and with no function-scoped entry leading
\* to the record the call created.
C11_FailedSaveKillsChild ==
    [][(last'.op = "Deploy" /\ last'.err = "save to db") =>
           /\ DOMAIN procs' \subseteq DOMAIN procs
           /\ \A n \in DOMAIN funcs' : funcs'[n] \in DOMAIN metas]_vars

\* The keys of the rows that are not soft-deleted.
LiveRows == {k \in DOMAIN db : ~db[k].deleted}

\* C12: after every completed operation, a load at startup included, the
\* rows of the store that are not deleted are exactly the keys of versions.
C12_StoreMatchesVersions == LiveRows = DOMAIN versionMap

\* C14: a restart from a state whose aliases name indexed versions and whose
\* store holds the indexed versions, with every sandbox starting again,
\* rebuilds versions and aliases ("latest" included) as they were, and every
\* host resolves to the version it resolved to before.
C14_RestartRoundTrip ==
    [][(/\ last'.op = "Restart"
        /\ AliasIndexSound
        /\ LiveRows = DOMAIN versionMap
        /\ DOMAIN versionMap' = LiveRows)
           => (/\ DOMAIN versionMap' = DOMAIN versionMap
               /\ aliasMap' = aliasMap
               /\ \A h \in Hosts : ResolvedKey(Cur', h) = ResolvedKey(Cur, h))]_vars

\* C13: when Deploy(name, version, alias) has succeeded, the same Deploy
\* made again, with nothing failing in the environment, succeeds and leaves
\* the rows of the store, the keys of versions, the aliases, the subdomain
\* index and the version GetByName leads to as they are.
C13_DeployIsUpsert ==
    (last.op = "Deploy" /\ last.err = "") =>
        \A port \in FreePorts(Cur) :
            LET id == versionMap[versionKey(last.name, last.version)]
                out == RegisterOrUpdate(Cur,
                                        NewMeta(last.name, last.version, last.alias,
                                                metas[id].code, metas[id].envVars),
                                        Env(NoFault, port, NextPid, ForeignPorts))
            IN /\ out.err = ""
               /\ DOMAIN out.r.db = DOMAIN db
               /\ DOMAIN out.r.versionMap = DOMAIN versionMap
               /\ out.r.aliasMap = aliasMap
               /\ out.r.subdomainMap = subdomainMap
               /\ ResolvedKey(out.r, FunctionHost(last.name))
                      = ResolvedKey(Cur, FunctionHost(last.name))

\* C15: after a successful Rollback no two indexed records that are running
\* (status running, a pid recorded) have the same port.
C15_PortsDisjoint ==
    (last.op = "Rollback" /\ last.err = "") =>
        \A k1, k2 \in DOMAIN versionMap :
            (/\ k1 # k2
             /\ metas[versionMap[k1]].status = "running"
             /\ metas[versionMap[k2]].status = "running"
             /\ metas[versionMap[k1]].pid # 0
             /\ metas[versionMap[k2]].pid # 0)
            => metas[versionMap[k1]].port # metas[versionMap[k2]].port

\* C16: after a DeleteVersion that has returned the store's error, every
\* indexed record either has a live process and a port, or has neither pid
\* nor port.
C16_RunningOrSuspended ==
    (last.op = "Delete" /\ last.err = "delete from db") =>
        \A k \in DOMAIN versionMap :
            \/ Running(Cur, versionMap[k]) /\ metas[versionMap[k]].port # 0
            \/ metas[versionMap[k]].pid = 0 /\ metas[versionMap[k]].port = 0

\* The three tiers as lookups in versions: the record the subdomain index
\* names, else the record the alias (first label) of the function (second
\* label) names, else the record of versions the latest entry of the first
\* label names, else NotFound.
ResolveInVersions(r, host) ==
    IF GetBySubdomain(r, host) # NotFound THEN GetBySubdomain(r, host)
    ELSE IF GetByAlias(r, host) # NotFound THEN GetByAlias(r, host)
    ELSE IF host[1] \in DOMAIN r.funcs
            /\ GetByVersion(r, r.metas[r.funcs[host[1]]].name,
                            r.metas[r.funcs[host[1]]].version) = r.funcs[host[1]]
    THEN r.funcs[host[1]]
    ELSE NotFound

\* C17: for every host the resolver returns what the three tiers give in
\* versions, and NotFound when none of them hits.
C17_ThreeTierLookup ==
    (last.op = "Delete" /\ last.err = "") =>
        \A h \in Hosts : Resolve(Cur, h) = ResolveInVersions(Cur, h)

\* C18: a proxied request that resolves to a suspended record and is
\* forwarded has made the record running with a port that was free, a new
\* pid of a live process and lastAccessed set to the time of the request,
\* and it is forwarded to that port.
C18_WakeBeforeForward ==
    [][(/\ last'.op = "Proxy"
        /\ last'.err = ""
        /\ metas[Resolve(Cur, last'.host)].status = "suspended")
           => LET id == Resolve(Cur, last'.host)
              IN /\ metas'[id].status = "running"
                 /\ metas'[id].port \in FreePorts(Cur)
                 /\ metas'[id].pid \notin DOMAIN procs \cup {0, metas[id].pid}
                 /\ Running(Cur', id)
                 /\ metas'[id].lastAccessed = Now
                 /\ last'.port = metas'[id].port]_vars

\* A request has been forwarded to an indexed record that it woke (an indexed
\* record that is not running is a suspended one).
C18_Witness ==
    /\ last.op = "Proxy"
    /\ last.err = ""
    /\ last.affected = {ResolvedKey(Cur, last.host)}
    /\ ResolvedKey(Cur, last.host) \in DOMAIN versionMap
    /\ versionMap[ResolvedKey(Cur, last.host)] = Resolve(Cur, last.host)
    /\ Running(Cur, Resolve(Cur, last.host))
    /\ last.port = metas[Resolve(Cur, last.host)].port
    /\ metas[Resolve(Cur, last.host)].lastAccessed = ops

\* C19: a proxied request whose wake of a suspended record fails is answered
\* 500 and not forwarded, and leaves the record suspended with pid and port
\* zero.
C19_FailedWakeLeavesSuspended ==
    [][(/\ last'.op = "Proxy"
        /\ Resolve(Cur, last'.host) # NotFound
        /\ metas[Resolve(Cur, last'.host)].status = "suspended"
        /\ last'.err # "")
           => LET id == Resolve(Cur, last'.host)
              IN /\ last'.err \in {"500 failed to get free port",
                                   "500 failed to wake up function"}
                 /\ last'.port = 0
                 /\ metas'[id].status = "suspended"
                 /\ metas'[id].pid = 0
                 /\ metas'[id].port = 0]_vars

\* C20: a pass of the idle checker leaves the latest record of every
\* function as it is, and every record it changes was running, idle beyond
\* the threshold and not the latest of its function.
C20_LatestNeverSuspended ==
    [][last'.op = "IdleCheck" =>
           /\ funcs' = funcs
           /\ \A n \in DOMAIN funcs : metas'[funcs[n]] = metas[funcs[n]]
           /\ \A k \in DOMAIN versionMap :
                  metas'[versionMap[k]] # metas[versionMap[k]]
                  => (/\ metas[versionMap[k]].status = "running"
                      /\ Now - metas[versionMap[k]].lastAccessed > IdleThreshold
                      /\ funcs[k[1]] # versionMap[k])]_vars

\* The idle checker has suspended a version while the latest record of the
\* function, idle beyond the threshold as well, is still running.
C20_Witness ==
    /\ last.op = "IdleCheck"
    /\ last.affected # {}
    /\ \E n \in DOMAIN funcs :
           /\ metas[funcs[n]].status = "running"
           /\ Running(Cur, funcs[n])
           /\ ops - metas[funcs[n]].lastAccessed > IdleThreshold
           /\ \E k \in last.affected : k[1] = n /\ metas[versionMap[k]].status = "suspended"

\* The errors of the registry that say the function or version is unknown.
NotFoundErrors == {"target version not found", "version not found"}

\* C21: a Rollback, Stop or Delete is answered 404 when the registry says the
\* function or version is unknown, 400 when the request does not bind, and
\* 500 only for an error of another kind.
C21_ErrorsMappedByKind ==
    last.op \in {"Rollback", "Stop", "Delete"} =>
        /\ last.err \in NotFoundErrors => last.code = StatusNotFound
        /\ last.err = BindError => last.code = StatusBadRequest
        /\ last.code = StatusInternalServerError
               => last.err \notin NotFoundErrors \cup {"", BindError}

\* C22: after a restart no soft-deleted row is indexed, no record and so no
\* process exists for it, and no host resolves to its version.
C22_DeletedInvisible ==
    [][last'.op = "Restart" =>
           \A k \in DOMAIN db :
               db[k].deleted =>
                   /\ k \notin DOMAIN versionMap'
                   /\ \A i \in DOMAIN metas' :
                          versionKey(metas'[i].name, metas'[i].version) # k
                   /\ \A p \in DOMAIN procs' :
                          \E i \in DOMAIN metas' : metas'[i].pid = p
                   /\ \A h \in Hosts : ResolvedKey(Cur', h) # k]_vars

\* The platform has restarted with one version soft-deleted in the store and
\* another one loaded and running.
C22_Witness ==
    /\ last.op = "Restart"
    /\ \E k \in DOMAIN db : db[k].deleted
    /\ \E k \in DOMAIN versionMap : Running(Cur, versionMap[k])

\* C23: any two indexed records of one function with different versions have
\* different code files, different configuration files and different log
\* files.
C23_FilesKeyedByVersion ==
    \A k1, k2 \in DOMAIN versionMap :
        (k1 # k2 /\ k1[1] = k2[1]) =>
            /\ metas[versionMap[k1]].codePath # metas[versionMap[k2]].codePath
            /\ metas[versionMap[k1]].confPath # metas[versionMap[k2]].confPath
            /\ metas[versionMap[k1]].logPath # metas[versionMap[k2]].logPath

\* C24: when a Deploy has succeeded, the bindings of the configuration
\* rendered for the record it deployed are the entries of the record's env
\* map, one binding (name, value) for each.
C24_ConfigBindsEnv ==
    (last.op = "Deploy" /\ last.err = "") =>
        LET m == metas[versionMap[versionKey(last.name, last.version)]]
        IN confContent(m).bindings = genWorkerdEnv(m.envVars)

\* C25: a Deploy without a version is given a version no earlier Deploy of
\* the function was given, one that is neither indexed nor in the store, and
\* leaves the indexed records of the function as they are.
C25_StampedVersionsUnique ==
    [][(last'.op = "Deploy" /\ last'.at # 0) =>
           /\ versionKey(last'.name, last'.version) \notin DOMAIN versionMap \cup DOMAIN db
           /\ \A k \in DOMAIN versionMap :
                  k \in DOMAIN versionMap' /\ versionMap'[k] = versionMap[k]]_vars

\* C26: what the lookup of a proxy request returns is what its host resolves
\* to in one of the states the registry was in while the lookup ran: the
\* state before or the state after each lifecycle call made meanwhile.
C26_LookupSeesOneState ==
    \A i \in ReqIds : reqs[i].pc = "done" => reqs[i].got \in reqs[i].seen

\* A request in its lookup can take its next step.
CanStep(i) == reqs[i].pc \in {"subdomain", "alias", "version", "name"} /\ RLockFree

\* C29: while a lookup or a lifecycle call is in progress, one of them can
\* go on: the lookup gets its read lock, or the call its write lock.
C29_LookupsNeverDeadlock ==
    (mu.writer = "pending" \/ \E i \in ReqIds : reqs[i].pc \notin {"idle", "done"})
        => (LockFree \/ \E i \in ReqIds : CanStep(i))

\* C27: the readiness probe returns success exactly when a listener accepts
\* on the port it was called with, and the timeout error otherwise.
C27_ProbeDialsRecordPort ==
    last.op = "waitPortListening" =>
        /\ last.err = "" <=> last.port \in last.accepting
        /\ last.err \in {"", "port not listening after 5s"}

\* C28: a DeleteVersion whose stop of the record has returned nil (it went on
\* to the store) has left the process table as it was when the record had
\* no pid, and leaves the record, where a map still leads to it, with pid
\* and port zero.
C28_StopClearsPidAndPort ==
    [][(/\ last'.op = "Delete"
        /\ last'.err \in {"", "delete from db"})
           => LET id == versionMap[versionKey(last'.name, last'.version)]
              IN /\ metas[id].pid = 0 => procs' = procs
                 /\ id \in DOMAIN metas' =>
                        metas'[id].pid = 0 /\ metas'[id].port = 0]_vars

\* C30: a request with a host {label}.{name}.func.local that is forwarded goes
\* to a record of the function {name}.
C30_NoCrossFunctionRouting ==
    (last.op = "Proxy" /\ last.err = "" /\ Len(last.host) = 4) =>
        metas[Resolve(Cur, last.host)].name = last.host[2]

\* C32: after a Rollback that returns success the target record has a live
\* process, and that process listens on the port the record holds.
C32_RollbackTargetLive ==
    (last.op = "Rollback" /\ last.err = "") =>
        LET m == metas[versionMap[versionKey(last.name, last.version)]]
        IN m.pid \in DOMAIN procs /\ procs[m.pid] = m.port

\* C33: every live process the registry has started is the process of
\* exactly one record of versionMap.
C33_NoOrphanSandboxes ==
    \A p \in DOMAIN procs :
        Cardinality({k \in DOMAIN versionMap : metas[versionMap[k]].pid = p}) = 1

\* C31: the port a request is forwarded to is, when the handler reads it, not
\* zero and the port a live process of the record it resolved to listens on.
C31_ForwardsToLivePort ==
    [][\A i \in ReqIds :
           (reqs[i].pc = "forward" /\ reqs'[i].pc = "done") =>
               /\ reqs'[i].port # 0
               /\ metas[reqs[i].id].pid \in DOMAIN procs
               /\ procs[metas[reqs[i].id].pid] = reqs'[i].port]_vars

\* C34: when two requests for the same record, suspended when the first of
\* them resolved it, have both been forwarded with no lifecycle call made
\* since they arrived, one of them and only one has started a process, both
\* were forwarded to the same port, and the process of the record is the
\* one live process listening on it.
C34_OneWakePerRecord ==
    \A i, j \in ReqIds :
        (/\ i # j
         /\ reqs[i].pc = "done" /\ reqs[j].pc = "done"
         /\ reqs[i].err = "" /\ reqs[j].err = ""
         /\ reqs[i].id = reqs[j].id
         /\ reqs[i].at = ops /\ reqs[j].at = ops
         /\ reqs[i].was = "suspended")
        => /\ reqs[i].woke # reqs[j].woke
           /\ reqs[i].port = reqs[j].port
           /\ metas[reqs[i].id].status = "running"
           /\ {p \in DOMAIN procs : procs[p] = reqs[i].port} = {metas[reqs[i].id].pid}

\* Both requests arrived while the record was suspended, and both were
\* forwarded.
C34_Witness ==
    /\ reqs[1].pc = "done" /\ reqs[2].pc = "done"
    /\ reqs[1].err = "" /\ reqs[2].err = ""
    /\ reqs[1].id = reqs[2].id
    /\ reqs[1].at = ops /\ reqs[2].at = ops
    /\ reqs[1].was = "suspended" /\ reqs[2].was = "suspended"
    /\ reqs[2].woke

====
